---- MODULE Spec2Model ----
(***************************************************************************)
(* check-mysql group-replication: one invocation of checkGroupReplication  *)
(* (check-mysql/lib/group-replication.go) against a server whose           *)
(* performance_schema.replication_group_members table is `table`.          *)
(*                                                                         *)
(* Strings are sequences of one-character strings, so that formatting      *)
(* (fmt.Sprintf, strings.Join) is computed character by character.         *)
(***************************************************************************)
EXTENDS Integers, Sequences, FiniteSets, TLC

\* Largest number of rows in replication_group_members.
MaxMembers == 3

---------------------------------------------------------------------------
\* String literals of the source.

stateOnline == <<"O", "N", "L", "I", "N", "E">>
stateRecovering == <<"R", "E", "C", "O", "V", "E", "R", "I", "N", "G">>
stateOffline == <<"O", "F", "F", "L", "I", "N", "E">>
stateError == <<"E", "R", "R", "O", "R">>
stateUnreachable == <<"U", "N", "R", "E", "A", "C", "H", "A", "B", "L", "E">>

\* "couldn't execute query"
errQuery == <<"c", "o", "u", "l", "d", "n", "'", "t", " ", "e", "x", "e", "c", "u", "t", "e", " ", "q", "u", "e", "r", "y">>
\* "couldn't connect DB"
errConnect == <<"c", "o", "u", "l", "d", "n", "'", "t", " ", "c", "o", "n", "n", "e", "c", "t", " ", "D", "B">>
\* " is not a group member"
notMember == <<" ", "i", "s", " ", "n", "o", "t", " ", "a", " ", "g", "r", "o", "u", "p", " ", "m", "e", "m", "b", "e", "r">>
\* ". Anomalies were detected in other group members: "
anomalies == <<".", " ", "A", "n", "o", "m", "a", "l", "i", "e", "s", " ", "w", "e", "r", "e", " ", "d", "e", "t", "e", "c", "t", "e", "d", " ", "i", "n", " ", "o", "t", "h", "e", "r", " ", "g", "r", "o", "u", "p", " ", "m", "e", "m", "b", "e", "r", "s", ":", " ">>

\* What fmt writes for a format that ends after '%', and after a verb that
\* has no operand.
noVerbString == <<"%", "!", "(", "N", "O", "V", "E", "R", "B", ")">>
missingString == <<"(", "M", "I", "S", "S", "I", "N", "G", ")">>

---------------------------------------------------------------------------
\* The values the inputs are drawn from.

\* A member state the server may report that the plugin has no constant
\* for: "%d".
stateOther == <<"%", "d">>

States == {stateOnline, stateRecovering, stateOffline, stateError,
           stateUnreachable, stateOther}

\* "db10" sorts before "db2" as a string and after it as a number.
Hosts == {<<"d", "b", "1", "0">>, <<"d", "b", "2">>}
Ports == {<<"3", "3", "0", "6">>, <<"3", "3", "0", "7">>}

Rows == [host : Hosts, port : Ports, state : States]

\* Every table of at most MaxMembers rows.
RECURSIVE TablesUpTo(_)
TablesUpTo(n) ==
    IF n = 0 THEN {{}}
    ELSE LET T == TablesUpTo(n - 1)
         IN  T \cup {t \cup {r} : t \in T, r \in Rows}

Tables == TablesUpTo(MaxMembers)

---------------------------------------------------------------------------
\* fmt and strings.

flagChars == {"#", "0", "+", "-", " "}
digitChars == {"0", "1", "2", "3", "4", "5", "6", "7", "8", "9"}

\* The first position >= i of f whose character is not in cs (Len(f)+1 when
\* there is none).
RECURSIVE SkipChars(_, _, _)
SkipChars(f, i, cs) ==
    IF i <= Len(f) /\ f[i] \in cs THEN SkipChars(f, i + 1, cs) ELSE i

\* The position of the verb of the directive whose '%' is at i: past the
\* flags, the width and the precision.
VerbPos(f, i) ==
    LET w == SkipChars(f, SkipChars(f, i + 1, flagChars), digitChars)
    IN  IF w <= Len(f) /\ f[w] = "." THEN SkipChars(f, w + 1, digitChars)
        ELSE w

\* fmt.Sprintf(format) with no operands, from position i on.  Covers the
\* directives without '*' and '[' .
RECURSIVE SprintfFrom(_, _)
SprintfFrom(f, i) ==
    IF i > Len(f) THEN <<>>
    ELSE IF f[i] # "%" THEN <<f[i]>> \o SprintfFrom(f, i + 1)
    ELSE LET v == VerbPos(f, i)
         IN  IF v > Len(f) THEN noVerbString
             ELSE IF f[v] = "%" THEN <<"%">> \o SprintfFrom(f, v + 1)
             ELSE <<"%", "!", f[v]>> \o missingString \o SprintfFrom(f, v + 1)

SprintfNoArgs(format) == SprintfFrom(format, 1)

\* Join with "," for separator.
RECURSIVE JoinComma(_)
JoinComma(list) ==
    IF list = <<>> THEN <<>>
    ELSE IF Len(list) = 1 THEN list[1]
    ELSE list[1] \o <<",">> \o JoinComma(Tail(list))

\* strings.Join(list, ", ")
RECURSIVE Join(_)
Join(list) ==
    IF list = <<>> THEN <<>>
    ELSE IF Len(list) = 1 THEN list[1]
    ELSE list[1] \o <<",", " ">> \o Join(Tail(list))

---------------------------------------------------------------------------
\* checkers.

Unknown(m) == [Status |-> "UNKNOWN", Message |-> m]
NewChecker(st, m) == [Status |-> st, Message |-> m]

---------------------------------------------------------------------------
\* The two statements, as the server evaluates them.

\* Byte values of the characters host names are made of.
CharCode == [c \in {"0", "1", "2", "b", "d"} |->
                CASE c = "0" -> 48 [] c = "1" -> 49 [] c = "2" -> 50
                  [] c = "b" -> 98 [] c = "d" -> 100]

\* a sorts before or with b, as strings.
RECURSIVE StrLeq(_, _)
StrLeq(a, b) ==
    IF a = <<>> THEN TRUE
    ELSE IF b = <<>> THEN FALSE
    ELSE IF Head(a) # Head(b) THEN CharCode[Head(a)] < CharCode[Head(b)]
    ELSE StrLeq(Tail(a), Tail(b))

\* WHERE MEMBER_HOST = ? AND MEMBER_PORT = ?
WhereLocal(row, localHostname, localPort) ==
    row.host = localHostname /\ row.port = localPort

\* The peer condition with the local member told by its host alone.
WherePeersHostOnly(row, localHostname, localPort) ==
    /\ row.state \notin {stateOnline, stateRecovering}
    /\ ~(row.host = localHostname)

\* WHERE MEMBER_STATE NOT IN ( 'ONLINE', 'RECOVERING' )
\*       AND NOT ( MEMBER_HOST = ? AND MEMBER_PORT = ? )
WherePeers(row, localHostname, localPort) ==
    /\ row.state \notin {stateOnline, stateRecovering}
    /\ ~(row.host = localHostname /\ row.port = localPort)

\* ORDER BY MEMBER_HOST: rows with equal hosts come in any order.
OrderByHost(q) ==
    \A i \in 1..Len(q) - 1 : StrLeq(q[i].host, q[i + 1].host)

\* The row sequences a SELECT without ORDER BY may return for the row set S.
Orderings(S) ==
    {q \in [1..Cardinality(S) -> S] : \A i, j \in DOMAIN q : q[i] = q[j] => i = j}

\* The row sequences the local-state statement may return.
LocalRows(t, localHostname, localPort) ==
    Orderings({r \in t : WhereLocal(r, localHostname, localPort)})

\* The row sequences the peer statement may return.
PeerRows(t, localHostname, localPort) ==
    {q \in Orderings({r \in t : WherePeers(r, localHostname, localPort)}) :
        OrderByHost(q)}

---------------------------------------------------------------------------
\* The pure parts of checkGroupReplication and getGroupMembers.

\* groupMember{Host: fmt.Sprintf("%s:%s", host, port), State: state}
MakeGroupMember(row) ==
    [Host |-> row.host \o <<":">> \o row.port, State |-> row.state]

\* The loop of getGroupMembers over the rows.
MakeGroupMembers(rows) == [i \in 1..Len(rows) |-> MakeGroupMember(rows[i])]

\* The error naming the host without the port.
NotGroupMemberHostOnly(localHostname, localPort) ==
    localHostname \o notMember

\* fmt.Errorf("%s:%s is not a group member", localHostname, localPort)
NotGroupMember(localHostname, localPort) ==
    localHostname \o <<":">> \o localPort \o notMember

\* msg := fmt.Sprintf(localMemberState)
BaseMsg(localState) == SprintfNoArgs(localState)

\* The switch with a case for each known state and a default that keeps OK.
ClassifyOpenDefault(localState) ==
    IF localState = stateRecovering THEN "WARNING"
    ELSE IF localState \in {stateOffline, stateError, stateUnreachable}
      THEN "CRITICAL"
    ELSE "OK"

\* switch localMemberState
Classify(localState) ==
    IF localState = stateOnline THEN "OK"
    ELSE IF localState = stateRecovering THEN "WARNING"
    ELSE "CRITICAL"

\* The escalation without its test of checkSt.
EscalateOverwrite(st) == "WARNING"

\* if checkSt == checkers.OK { checkSt = checkers.WARNING }
Escalate(st) == IF st = "OK" THEN "WARNING" ELSE st

\* fmt.Sprintf("%s %s", member.Host, member.State) for every member
GroupMembersList(members) ==
    [i \in 1..Len(members) |-> members[i].Host \o <<" ">> \o members[i].State]

\* fmt.Sprintf("%s. Anomalies were detected in other group members: %s", ...)
CompositeMsg(localState, members) ==
    localState \o anomalies \o Join(GroupMembersList(members))

---------------------------------------------------------------------------
\* getLocalMemberState and getGroupMembers: the (value, error) pairs a call
\* may return.  `cause` names what went wrong at the server, "none" when
\* nothing did.

getLocalMemberState(t, localHostname, localPort) ==
    {[val |-> <<>>, ok |-> FALSE, err |-> errQuery, cause |-> c] :
        c \in {"prepare", "exec"}}
    \cup
    {IF Len(rows) = 0
       THEN [val |-> <<>>, ok |-> FALSE,
             err |-> NotGroupMember(localHostname, localPort),
             cause |-> "norows"]
       ELSE [val |-> rows[1].state, ok |-> TRUE, err |-> <<>>,
             cause |-> "none"] :
        rows \in LocalRows(t, localHostname, localPort)}

getGroupMembers(t, localHostname, localPort) ==
    {[val |-> <<>>, rows |-> <<>>, ok |-> FALSE, err |-> errQuery,
      cause |-> c] : c \in {"peerprepare", "peerexec"}}
    \cup
    {[val |-> MakeGroupMembers(rows), rows |-> rows, ok |-> TRUE,
      err |-> <<>>, cause |-> "none"] :
        rows \in PeerRows(t, localHostname, localPort)}

---------------------------------------------------------------------------
\* One invocation of checkGroupReplication.

VARIABLES
    opts,               \* the parsed options
    table,              \* the rows of replication_group_members
    pc,                 \* where the invocation is
    dbState,            \* "new", "connected" or "closed"
    deferred,           \* whether db.Close() has been deferred
    closeCount,         \* how many times db.Close() has run
    calls,              \* the lookups made, with the state of db at the call
    failures,           \* what has gone wrong at the server so far
    localMemberState,   \* the local variables of checkGroupReplication
    checkSt,
    msg,
    groupMembers,
    peerRows,           \* the rows the peer statement returned
    returned            \* the checkers returned

vars == <<opts, table, pc, dbState, deferred, closeCount, calls, failures,
          localMemberState, checkSt, msg, groupMembers, peerRows, returned>>

locals == <<localMemberState, checkSt, msg, groupMembers, peerRows>>

\* --local-hostname has no default: it is "" when the flag is not given.
Options == [LocalHostname : Hosts \cup {<<>>}, LocalPort : Ports,
            GroupMember : BOOLEAN]

Init ==
    /\ opts \in Options
    /\ table \in Tables
    /\ pc = "parse"
    /\ dbState = "new"
    /\ deferred = FALSE
    /\ closeCount = 0
    /\ calls = <<>>
    /\ failures = {}
    /\ localMemberState = <<>>
    /\ checkSt = ""
    /\ msg = <<>>
    /\ groupMembers = <<>>
    /\ peerRows = <<>>
    /\ returned = <<>>

\* return r: the deferred db.Close() runs on the way out.
Return(r) ==
    /\ returned' = Append(returned, r)
    /\ closeCount' = IF deferred THEN closeCount + 1 ELSE closeCount
    /\ dbState' = IF deferred THEN "closed" ELSE dbState
    /\ pc' = "done"

\* psr.ParseArgs(args); os.Exit(1) when it fails.
ParseArgs ==
    /\ pc = "parse"
    /\ \E ok \in BOOLEAN : pc' = IF ok THEN "connect" ELSE "exit"
    /\ UNCHANGED <<opts, table, dbState, deferred, closeCount, calls,
                   failures, locals, returned>>

\* Connect reporting a failed connection as CRITICAL.
ConnectCritical ==
    /\ pc = "connect"
    /\ \/ /\ failures' = failures \cup {"connect"}
          /\ Return(NewChecker("CRITICAL", errConnect))
          /\ UNCHANGED deferred
       \/ /\ dbState' = "connected"
          /\ deferred' = TRUE
          /\ pc' = "local"
          /\ UNCHANGED <<failures, closeCount, returned>>
    /\ UNCHANGED <<opts, table, calls, locals>>

\* Connect without the deferred db.Close().
ConnectNoDefer ==
    /\ pc = "connect"
    /\ \/ /\ failures' = failures \cup {"connect"}
          /\ Return(Unknown(errConnect))
          /\ UNCHANGED deferred
       \/ /\ dbState' = "connected"
          /\ pc' = "local"
          /\ UNCHANGED <<deferred, failures, closeCount, returned>>
    /\ UNCHANGED <<opts, table, calls, locals>>

\* db.Connect(), and defer db.Close() when it succeeded.
Connect ==
    /\ pc = "connect"
    /\ \/ /\ failures' = failures \cup {"connect"}
          /\ Return(Unknown(errConnect))
          /\ UNCHANGED deferred
       \/ /\ dbState' = "connected"
          /\ deferred' = TRUE
          /\ pc' = "local"
          /\ UNCHANGED <<failures, closeCount, returned>>
    /\ UNCHANGED <<opts, table, calls, locals>>

\* The local lookup with its error ignored.
LocalLookupNoReturn ==
    /\ pc = "local"
    /\ calls' = Append(calls, [fn |-> "getLocalMemberState", db |-> dbState])
    /\ \E r \in getLocalMemberState(table, opts.LocalHostname, opts.LocalPort) :
          /\ failures' = failures \cup ({r.cause} \ {"none"})
          /\ localMemberState' = r.val
          /\ pc' = "classify"
          /\ UNCHANGED <<dbState, closeCount, returned>>
    /\ UNCHANGED <<opts, table, deferred, checkSt, msg, groupMembers, peerRows>>

\* localMemberState, err := getLocalMemberState(...)
LocalLookup ==
    /\ pc = "local"
    /\ calls' = Append(calls, [fn |-> "getLocalMemberState", db |-> dbState])
    /\ \E r \in getLocalMemberState(table, opts.LocalHostname, opts.LocalPort) :
          /\ failures' = failures \cup ({r.cause} \ {"none"})
          /\ localMemberState' = r.val
          /\ IF ~r.ok
               THEN Return(Unknown(r.err))
               ELSE /\ pc' = "classify"
                    /\ UNCHANGED <<dbState, closeCount, returned>>
    /\ UNCHANGED <<opts, table, deferred, checkSt, msg, groupMembers, peerRows>>

\* The classification of the local state, and the return when -g is not given.
ClassifyLocal ==
    /\ pc = "classify"
    /\ checkSt' = Classify(localMemberState)
    /\ msg' = BaseMsg(localMemberState)
    /\ IF ~opts.GroupMember
         THEN Return(NewChecker(checkSt', msg'))
         ELSE /\ pc' = "peers"
              /\ UNCHANGED <<dbState, closeCount, returned>>
    /\ UNCHANGED <<opts, table, deferred, calls, failures, localMemberState,
                   groupMembers, peerRows>>

\* The peer scan whose failure returns the local verdict.
PeerScanKeepLocal ==
    /\ pc = "peers"
    /\ calls' = Append(calls, [fn |-> "getGroupMembers", db |-> dbState])
    /\ \E r \in getGroupMembers(table, opts.LocalHostname, opts.LocalPort) :
          /\ failures' = failures \cup ({r.cause} \ {"none"})
          /\ groupMembers' = r.val
          /\ peerRows' = r.rows
          /\ IF ~r.ok
               THEN Return(NewChecker(checkSt, msg))
               ELSE /\ pc' = "aggregate"
                    /\ UNCHANGED <<dbState, closeCount, returned>>
    /\ UNCHANGED <<opts, table, deferred, localMemberState, checkSt, msg>>

\* groupMembers, err := getGroupMembers(...)
PeerScan ==
    /\ pc = "peers"
    /\ calls' = Append(calls, [fn |-> "getGroupMembers", db |-> dbState])
    /\ \E r \in getGroupMembers(table, opts.LocalHostname, opts.LocalPort) :
          /\ failures' = failures \cup ({r.cause} \ {"none"})
          /\ groupMembers' = r.val
          /\ peerRows' = r.rows
          /\ IF ~r.ok
               THEN Return(Unknown(r.err))
               ELSE /\ pc' = "aggregate"
                    /\ UNCHANGED <<dbState, closeCount, returned>>
    /\ UNCHANGED <<opts, table, deferred, localMemberState, checkSt, msg>>

\* if len(groupMembers) > 0 { ... }; return checkers.NewChecker(checkSt, msg)
Aggregate ==
    /\ pc = "aggregate"
    /\ checkSt' = IF Len(groupMembers) > 0 THEN Escalate(checkSt) ELSE checkSt
    /\ msg' = IF Len(groupMembers) > 0
                THEN CompositeMsg(localMemberState, groupMembers)
                ELSE msg
    /\ Return(NewChecker(checkSt', msg'))
    /\ UNCHANGED <<opts, table, deferred, calls, failures, localMemberState,
                   groupMembers, peerRows>>

Next ==
    \/ ParseArgs
    \/ Connect
    \/ LocalLookup
    \/ ClassifyLocal
    \/ PeerScan
    \/ Aggregate

Spec == Init /\ [][Next]_vars

---------------------------------------------------------------------------
\* What the properties below speak of.

Done == pc = "done"

\* The checker the invocation returned.
Result == returned[1]

LocalFailures == {"connect", "prepare", "exec", "norows"}
PeerFailures == {"peerprepare", "peerexec"}

\* The functions that were called, in order.
Called == {calls[i].fn : i \in DOMAIN calls}

\* The severity the specification gives a local state.
StateSeverity(s) ==
    CASE s = stateOnline -> "OK"
      [] s = stateRecovering -> "WARNING"
      [] OTHER -> "CRITICAL"

Rank(st) == CASE st = "OK" -> 0 [] st = "WARNING" -> 1 [] st = "CRITICAL" -> 2

\* The rows of the table with the configured local host and port.
LocalMatches ==
    {r \in table : r.host = opts.LocalHostname /\ r.port = opts.LocalPort}

\* The rows of the table that are peer anomalies.
Anomalous ==
    {r \in table : /\ r.state # stateOnline
                   /\ r.state # stateRecovering
                   /\ (r.host # opts.LocalHostname \/ r.port # opts.LocalPort)}

\* "<host>:<port> <state>" of the rows q[i..], joined by ", ".
RECURSIVE Entries(_, _)
Entries(q, i) ==
    IF i > Len(q) THEN <<>>
    ELSE q[i].host \o <<":">> \o q[i].port \o <<" ">> \o q[i].state
         \o (IF i < Len(q) THEN <<",", " ">> ELSE <<>>)
         \o Entries(q, i + 1)

---------------------------------------------------------------------------
\* C1: without -g, a successfully looked up local state s gives OK when s is
\* ONLINE, WARNING when s is RECOVERING and CRITICAL for every other string,
\* and s is the state of a row of the local member.
C1_LocalClassification ==
    (Done /\ ~opts.GroupMember /\ failures = {}) =>
        /\ Result.Status = StateSeverity(localMemberState)
        /\ Result.Status \in {"OK", "WARNING"}
              => localMemberState \in {stateOnline, stateRecovering}
        /\ \E r \in LocalMatches : r.state = localMemberState

C1_Witness ==
    /\ Done /\ ~opts.GroupMember /\ failures = {}
    /\ localMemberState = stateOther
    /\ Result.Status = "CRITICAL"

\* C2: with -g and both lookups successful, the severity is the local
\* state's severity when there are no anomalous peers and the larger of it
\* and WARNING otherwise; it is never below the severity without -g and is
\* CRITICAL only when the local state is neither ONLINE nor RECOVERING.
C2_PeerEscalation ==
    (Done /\ opts.GroupMember /\ failures = {}) =>
        LET base == StateSeverity(localMemberState)
        IN  /\ Len(peerRows) = 0 => Result.Status = base
            /\ Len(peerRows) > 0 =>
                  Result.Status = IF Rank(base) < Rank("WARNING")
                                    THEN "WARNING" ELSE base
            /\ Rank(Result.Status) >= Rank(base)
            /\ Result.Status = "CRITICAL"
                  => localMemberState \notin {stateOnline, stateRecovering}

C2_Witness ==
    /\ Done /\ opts.GroupMember /\ failures = {}
    /\ localMemberState = stateOnline
    /\ Len(peerRows) >= 2
    /\ \E i \in DOMAIN peerRows : peerRows[i].state = stateUnreachable
    /\ Result.Status = "WARNING"

\* C3: once the local state could not be obtained the invocation has
\* returned UNKNOWN and getGroupMembers is not called; getGroupMembers is
\* only ever called right after a successful getLocalMemberState.
C3_NoPeerScanAfterLocalFailure ==
    /\ failures \cap LocalFailures # {} =>
          /\ Done
          /\ Result.Status = "UNKNOWN"
          /\ "getGroupMembers" \notin Called
    /\ \A i \in DOMAIN calls :
          calls[i].fn = "getGroupMembers" =>
              /\ i = 2
              /\ calls[1].fn = "getLocalMemberState"
              /\ failures \cap LocalFailures = {}
              /\ LocalMatches # {}

C3_Witness ==
    /\ Done /\ opts.GroupMember
    /\ "norows" \in failures
    /\ Anomalous # {}
    /\ Result.Status = "UNKNOWN"

\* C4: with -g, a failed peer scan after a successful local lookup gives
\* UNKNOWN whatever the local state; without -g getGroupMembers is not
\* called and no peer-scan failure occurs.
C4_PeerScanFailure ==
    /\ (Done /\ failures \cap PeerFailures # {}) =>
          /\ opts.GroupMember
          /\ Result = [Status |-> "UNKNOWN", Message |-> errQuery]
    /\ ~opts.GroupMember =>
          /\ "getGroupMembers" \notin Called
          /\ failures \cap PeerFailures = {}

C4_Witness ==
    /\ Done /\ opts.GroupMember
    /\ failures = {"peerexec"}
    /\ localMemberState = stateError
    /\ checkSt = "CRITICAL"
    /\ Result.Status = "UNKNOWN"

\* C5: when the local statement ran and no row has the configured host and
\* port, the result is UNKNOWN "<host>:<port> is not a group member".
C5_NotAGroupMember ==
    (/\ Done
     /\ calls # <<>>
     /\ failures \cap {"prepare", "exec"} = {}
     /\ LocalMatches = {}) =>
        /\ failures = {"norows"}
        /\ Result = [Status |-> "UNKNOWN",
                     Message |-> opts.LocalHostname \o <<":">>
                                 \o opts.LocalPort \o notMember]

C5_Witness ==
    /\ Done /\ opts.GroupMember
    /\ LocalMatches = {}
    /\ \E r \in table : r.host = opts.LocalHostname /\ r.state = stateOffline
    /\ Result.Status = "UNKNOWN"
    /\ Result.Message = opts.LocalHostname \o <<":">> \o opts.LocalPort \o notMember

\* C6: when the lookups succeeded and -g is not given or there are no
\* anomalous peers, the message is the local state string itself.
C6_LiteralMessage ==
    (Done /\ failures = {} /\ (~opts.GroupMember \/ Len(peerRows) = 0)) =>
        Result.Message = localMemberState

\* C7: with -g and anomalous peers p1..pn, sorted by host, the message is
\* "<localState>. Anomalies were detected in other group members: " and then
\* "<host_i>:<port_i> <state_i>" for i = 1..n in that order, joined by ", ".
C7_CompositeMessage ==
    (Done /\ opts.GroupMember /\ failures = {} /\ Len(peerRows) > 0) =>
        /\ Result.Message = localMemberState \o anomalies \o Entries(peerRows, 1)
        /\ Len(groupMembers) = Len(peerRows)
        /\ \A i, j \in DOMAIN peerRows :
              i < j => /\ peerRows[i] # peerRows[j]
                       /\ StrLeq(peerRows[i].host, peerRows[j].host)

C7_Witness ==
    /\ Done /\ opts.GroupMember /\ failures = {}
    /\ localMemberState = stateOther
    /\ Len(peerRows) = 2
    /\ peerRows[1].host # peerRows[2].host
    /\ peerRows[1].state # peerRows[2].state

\* C8: an invocation returns one checker, with a severity among OK, WARNING,
\* CRITICAL and UNKNOWN, and the severity is UNKNOWN exactly when something
\* went wrong at the server.
C8_UnknownIffFailure ==
    /\ Len(returned) = IF Done THEN 1 ELSE 0
    /\ Done =>
          /\ Result.Status \in {"OK", "WARNING", "CRITICAL", "UNKNOWN"}
          /\ Result.Status = "UNKNOWN" <=> failures # {}
    /\ ~Done => failures = {}

C8_Witness ==
    /\ Done
    /\ failures = {"prepare"}
    /\ \E r \in LocalMatches : r.state = stateOnline
    /\ Result.Status = "UNKNOWN"

\* C9: the rows a successful peer scan returns are, each once, the rows whose
\* state is neither ONLINE nor RECOVERING and whose host or port differs from
\* the configured local ones.
C9_PeerSet ==
    ("getGroupMembers" \in Called /\ failures = {}) =>
        /\ {peerRows[i] : i \in DOMAIN peerRows} = Anomalous
        /\ Len(peerRows) = Cardinality(Anomalous)
        /\ \A i \in DOMAIN peerRows :
              /\ peerRows[i].state \notin {stateOnline, stateRecovering}
              /\ <<peerRows[i].host, peerRows[i].port>>
                    # <<opts.LocalHostname, opts.LocalPort>>
        /\ Len(groupMembers) = Len(peerRows)
        /\ \A i \in DOMAIN peerRows :
              groupMembers[i] =
                  [Host |-> peerRows[i].host \o <<":">> \o peerRows[i].port,
                   State |-> peerRows[i].state]

C9_Witness ==
    /\ Done /\ failures = {}
    /\ localMemberState = stateOffline
    /\ Len(peerRows) = 1
    /\ peerRows[1].host = opts.LocalHostname
    /\ peerRows[1].port # opts.LocalPort
    /\ \E r \in table : r.state = stateRecovering /\ r.host # opts.LocalHostname

\* C10: every lookup is made on a connected db; after a successful connect
\* db.Close() runs once, when the invocation returns; a failed connect gives
\* UNKNOWN "couldn't connect DB" with no lookup and no close.
C10_ConnectionLifecycle ==
    /\ \A i \in DOMAIN calls : calls[i].db = "connected"
    /\ (Done /\ "connect" \notin failures) => closeCount = 1 /\ dbState = "closed"
    /\ ~Done => closeCount = 0
    /\ "connect" \in failures =>
          /\ Done
          /\ returned = <<[Status |-> "UNKNOWN", Message |-> errConnect]>>
          /\ calls = <<>>
          /\ closeCount = 0
          /\ dbState = "new"

C10_Witness ==
    /\ Done
    /\ failures = {"peerprepare"}
    /\ Len(calls) = 2
    /\ closeCount = 1

====
